---------------------------- MODULE Spec2Model ----------------------------
(***************************************************************************)
(* A model of the Wordye game session (wordye.py, class Game) and of the    *)
(* automated player (ai.py, class AIGame).                                 *)
(*                                                                         *)
(* A character is a one-character string, a word is a sequence of          *)
(* characters.  Python indices are 0-based, the sequences here are         *)
(* 1-based; every definition that returns a Python index says so.          *)
(***************************************************************************)
EXTENDS Integers, Sequences, FiniteSets, TLC

VARIABLES
    hard_mode,      \* Game.hard_mode
    attempts,       \* Game._attempts: a sequence of Words
    letters,        \* Game._letters: ascii_uppercase -> LetterState
    solution,       \* Game._solution
    valid_guesses,  \* Game._valid_guesses
    guess,          \* the argument of the last guess_word call (<<>> before any);
                    \* in make_guess, the guess that get_guess returned
    result,         \* how the last guess_word call ended: "None" or the exception raised
    candidates,     \* AIGame._candidates ({} in a session that is no AIGame)
    considered,     \* AIGame._candidates as get_guess counts and prints it,
                    \* after the elimination loop and before the choice
    turns,          \* the number of get_guess calls so far
    pc              \* where AIGame.play stands: "play" (the loop test),
                    \* "guess_word" (get_guess returned), "done", "crashed"
                    \* (an exception left play); "caller" when the
                    \* session is driven by guess_word calls alone

vars == <<hard_mode, attempts, letters, solution, valid_guesses, guess, result,
          candidates, considered, turns, pc>>

\* The fields and the place of the automated player.
ai_vars == <<candidates, considered, turns, pc>>

---------------------------------------------------------------------------
(* Program constants.                                                      *)

MAX_ATTEMPTS == 6
WORD_LENGTH == 5

\* class LetterState(Enum)
UNKNOWN == 1
NOT_IN_WORD == 2
IN_WORD == 3
IN_CORRECT_POSITION == 4

---------------------------------------------------------------------------
(* Bounds of the model.                                                    *)

\* The alphabet is the first NumLetters letters of UpperSeq.
NumLetters == 7
\* How many words of ExtraGuessWords valid_guesses.txt holds.
NumExtraGuesses == 1
\* The words scored against each other in ScoreSpec are over the first
\* ScoreLetters letters.
ScoreLetters == 2

UpperSeq == <<"A", "B", "C", "D", "E", "I", "U", "O", "S">>
LowerSeq == <<"a", "b", "c", "d", "e", "i", "u", "o", "s">>

\* string.ascii_uppercase, cut to the alphabet of the model
ascii_uppercase == {UpperSeq[i] : i \in 1..NumLetters}

\* str.upper() of one character
upper_char(c) ==
    IF \E k \in 1..Len(LowerSeq) : LowerSeq[k] = c
    THEN UpperSeq[CHOOSE k \in 1..Len(LowerSeq) : LowerSeq[k] = c]
    ELSE c

\* str.upper()
upper(s) == [i \in 1..Len(s) |-> upper_char(s[i])]

\* str.lower(), used only to build mixed-case inputs
lower_char(c) ==
    IF \E k \in 1..Len(UpperSeq) : UpperSeq[k] = c
    THEN LowerSeq[CHOOSE k \in 1..Len(UpperSeq) : UpperSeq[k] = c]
    ELSE c

---------------------------------------------------------------------------
(* Pure helpers of guess_word.                                             *)

Range(s) == {s[i] : i \in 1..Len(s)}

Min(a, b) == IF a < b THEN a ELSE b

\* the list [i for i, l in enumerate(word) if l == letter], ascending, 1-based
letter_indices(word, letter) ==
    SelectSeq([i \in 1..Len(word) |-> i], LAMBDA i : word[i] = letter)

\* list.index(x): the 0-based place of the first x in list l
index_of(l, x) == (CHOOSE k \in 1..Len(l) : l[k] = x /\ \A j \in 1..(k - 1) : l[j] # x) - 1

\* letter_state without the matches in place: the occurrences of the letter
\* that the guess has in the right place are not counted as used.
letter_state_ignoring_correct(g, sol, index) ==
    LET guess_letter == g[index]
        correct_indices == letter_indices(sol, guess_letter)
        guess_indices == letter_indices(g, guess_letter)
        incorrectly_guessed_indices ==
            SelectSeq(guess_indices, LAMBDA i : i \notin Range(correct_indices))
    IN  IF guess_letter = sol[index]
        THEN IN_CORRECT_POSITION
        ELSE IF guess_letter \in Range(sol)
        THEN IF index_of(incorrectly_guessed_indices, index) < Len(correct_indices)
             THEN IN_WORD
             ELSE NOT_IN_WORD
        ELSE NOT_IN_WORD

\* letter_state as a single pass: every misplaced letter of the solution is
\* IN_WORD, however often the guess repeats it.
letter_state_single_pass(g, sol, index) ==
    IF g[index] = sol[index]
    THEN IN_CORRECT_POSITION
    ELSE IF g[index] \in Range(sol) THEN IN_WORD ELSE NOT_IN_WORD

\* letter_state counting the misplaced occurrences from the right: the
\* rightmost ones are IN_WORD.
letter_state_from_right(g, sol, index) ==
    LET guess_letter == g[index]
        correct_indices == letter_indices(sol, guess_letter)
        guess_indices == letter_indices(g, guess_letter)
        correctly_guessed_indices ==
            SelectSeq(guess_indices, LAMBDA i : i \in Range(correct_indices))
        incorrectly_guessed_indices ==
            SelectSeq(guess_indices, LAMBDA i : i \notin Range(correct_indices))
    IN  IF guess_letter = sol[index]
        THEN IN_CORRECT_POSITION
        ELSE IF guess_letter \in Range(sol)
        THEN IF (Len(incorrectly_guessed_indices) - 1
                    - index_of(incorrectly_guessed_indices, index))
                    + Len(correctly_guessed_indices) < Len(correct_indices)
             THEN IN_WORD
             ELSE NOT_IN_WORD
        ELSE NOT_IN_WORD

\* The body of the scoring loop for one position: the LetterState of
\* guess[index] against solution.
letter_state(g, sol, index) ==
    LET guess_letter == g[index]
        correct_letter == sol[index]
        correct_indices == letter_indices(sol, guess_letter)
        guess_indices == letter_indices(g, guess_letter)
        correctly_guessed_indices ==
            SelectSeq(guess_indices, LAMBDA i : i \in Range(correct_indices))
        incorrectly_guessed_indices ==
            SelectSeq(guess_indices, LAMBDA i : i \notin Range(correct_indices))
    IN  IF guess_letter = correct_letter
        THEN IN_CORRECT_POSITION
        ELSE IF guess_letter \in Range(sol)
        THEN IF index_of(incorrectly_guessed_indices, index)
                    + Len(correctly_guessed_indices) < Len(correct_indices)
             THEN IN_WORD
             ELSE NOT_IN_WORD
        ELSE NOT_IN_WORD

\* The Word built by the first n rounds of the scoring loop over
\* zip(guess, solution): each round appends Letter(guess_letter, state).
RECURSIVE score_letters(_, _, _)
score_letters(g, sol, n) ==
    IF n = 0 THEN <<>>
    ELSE Append(score_letters(g, sol, n - 1),
                [text |-> g[n], state |-> letter_state(g, sol, n)])

\* The Word built by the whole scoring loop.
score_word(g, sol) == score_letters(g, sol, Min(Len(g), Len(sol)))

\* The loop that resets every letter that is not NOT_IN_WORD to UNKNOWN.
reset_letters(ls) ==
    [l \in DOMAIN ls |-> IF ls[l] # NOT_IN_WORD THEN UNKNOWN ELSE ls[l]]

\* self._letters[guess_letter] = state, for the positions 1..n of word in
\* order: a later position overwrites an earlier one.
RECURSIVE assign_letters(_, _, _)
assign_letters(ls, word, n) ==
    IF n = 0 THEN ls
    ELSE [assign_letters(ls, word, n - 1) EXCEPT ![word[n].text] = word[n].state]

---------------------------------------------------------------------------
(* Properties of the session.                                              *)

\* all_correct with any() in place of all().
any_correct(word) == \E i \in 1..Len(word) : word[i].state = IN_CORRECT_POSITION

all_correct(word) == \A i \in 1..Len(word) : word[i].state = IN_CORRECT_POSITION

\* won looking at the first Attempt instead of the last one.
won_first_attempt ==
    /\ 0 < Len(attempts)
    /\ Len(attempts) <= MAX_ATTEMPTS
    /\ all_correct(attempts[1])

\* Game.won
won ==
    /\ 0 < Len(attempts)
    /\ Len(attempts) <= MAX_ATTEMPTS
    /\ all_correct(attempts[Len(attempts)])

\* game_over without the win: only the attempt count ends the game.
game_over_ignoring_win == Len(attempts) >= MAX_ATTEMPTS

\* Game.game_over
game_over == won \/ Len(attempts) >= MAX_ATTEMPTS

\* The test of print_game_emoji that picks the numeric score over 'X': the
\* text of the last Attempt is the solution.
emoji_solved ==
    [i \in 1..Len(attempts[Len(attempts)]) |-> attempts[Len(attempts)][i].text] = solution

\* The hard-mode loop testing the wrong LetterState: it holds the guess to
\* the Present letters' positions instead of the Correct ones.
hard_mode_violation_wrong_state(g) ==
    /\ hard_mode
    /\ attempts # <<>>
    /\ LET prev_attempt == attempts[Len(attempts)]
       IN  \E index \in 1..Len(prev_attempt) :
               /\ prev_attempt[index].state = IN_WORD
               /\ g[index] # prev_attempt[index].text

\* The hard-mode loop with the condition that line 93 comments out: a
\* Present letter of the previous Attempt must occur in the guess.
hard_mode_violation_with_present(g) ==
    /\ hard_mode
    /\ attempts # <<>>
    /\ LET prev_attempt == attempts[Len(attempts)]
       IN  \E index \in 1..Len(prev_attempt) :
               \/ /\ prev_attempt[index].state = IN_CORRECT_POSITION
                  /\ g[index] # prev_attempt[index].text
               \/ /\ prev_attempt[index].state = IN_WORD
                  /\ prev_attempt[index].text \notin Range(g)

\* The hard-mode loop of guess_word: TRUE when it raises.  g is the guess
\* after upper().
hard_mode_violation(g) ==
    /\ hard_mode
    /\ attempts # <<>>
    /\ LET prev_attempt == attempts[Len(attempts)]
       IN  \E index \in 1..Len(prev_attempt) :
               /\ prev_attempt[index].state = IN_CORRECT_POSITION
               /\ g[index] # prev_attempt[index].text

---------------------------------------------------------------------------
(* The word catalog: the two word files and get_word_list.                 *)

\* valid_solutions.txt, one word per line (case as in the file)
valid_solutions_txt ==
    << <<"A", "B", "A", "C", "A">>,
       <<"a", "a", "b", "b", "c">>,
       <<"C", "B", "A", "A", "B">> >>

ExtraGuessWords ==
    << <<"A", "A", "B", "A", "A">>,
       <<"B", "A", "C", "A", "A">>,
       <<"A", "B", "C", "C", "A">>,
       <<"C", "C", "A", "B", "B">> >>

\* valid_guesses.txt
valid_guesses_txt == SubSeq(ExtraGuessWords, 1, Min(NumExtraGuesses, Len(ExtraGuessWords)))

\* get_word_list: every line upper-cased
get_word_list(file) == [i \in 1..Len(file) |-> upper(file[i])]

valid_solutions == get_word_list(valid_solutions_txt)

\* Every word of WORD_LENGTH letters over the first ScoreLetters letters.
AllWords == [1..WORD_LENGTH -> {UpperSeq[i] : i \in 1..ScoreLetters}]

---------------------------------------------------------------------------
(* The session.                                                            *)

\* Game.__init__ with the word files above
Init ==
    /\ hard_mode \in BOOLEAN
    /\ attempts = <<>>
    /\ letters = [l \in ascii_uppercase |-> UNKNOWN]
    /\ solution \in Range(valid_solutions)
    /\ valid_guesses = Range(valid_solutions \o get_word_list(valid_guesses_txt))
    /\ guess = <<>>
    /\ result = "None"
    /\ candidates = {}
    /\ considered = {}
    /\ turns = 0
    /\ pc = "caller"

\* guess_word with the hard-mode check ahead of the dictionary check.
guess_word_hard_mode_first(g) ==
    /\ guess' = g
    /\ UNCHANGED <<hard_mode, solution, valid_guesses>>
    /\ IF game_over
       THEN /\ result' = "None"
            /\ UNCHANGED <<attempts, letters>>
       ELSE IF g = <<>> \/ Len(g) # WORD_LENGTH
       THEN /\ result' = "WordLengthViolation"
            /\ UNCHANGED <<attempts, letters>>
       ELSE IF hard_mode_violation(upper(g))
       THEN /\ result' = "HardModeRuleViolation"
            /\ UNCHANGED <<attempts, letters>>
       ELSE IF upper(g) \notin valid_guesses
       THEN /\ result' = "WordExistenceViolation"
            /\ UNCHANGED <<attempts, letters>>
       ELSE LET word == score_word(upper(g), solution)
            IN  /\ result' = "None"
                /\ letters' = assign_letters(reset_letters(letters), word, Len(word))
                /\ attempts' = Append(attempts, word)

\* guess_word with the keyboard reset loop ahead of the checks.
guess_word_reset_first(g) ==
    /\ guess' = g
    /\ UNCHANGED <<hard_mode, solution, valid_guesses>>
    /\ IF game_over
       THEN /\ result' = "None"
            /\ UNCHANGED <<attempts, letters>>
       ELSE IF g = <<>> \/ Len(g) # WORD_LENGTH
       THEN /\ result' = "WordLengthViolation"
            /\ letters' = reset_letters(letters)
            /\ UNCHANGED attempts
       ELSE IF upper(g) \notin valid_guesses
       THEN /\ result' = "WordExistenceViolation"
            /\ letters' = reset_letters(letters)
            /\ UNCHANGED attempts
       ELSE IF hard_mode_violation(upper(g))
       THEN /\ result' = "HardModeRuleViolation"
            /\ letters' = reset_letters(letters)
            /\ UNCHANGED attempts
       ELSE LET word == score_word(upper(g), solution)
            IN  /\ result' = "None"
                /\ letters' = assign_letters(reset_letters(letters), word, Len(word))
                /\ attempts' = Append(attempts, word)

\* Game.guess_word(g)
guess_word(g) ==
    /\ guess' = g
    /\ UNCHANGED <<hard_mode, solution, valid_guesses>>
    /\ IF game_over
       THEN /\ result' = "None"
            /\ UNCHANGED <<attempts, letters>>
       ELSE IF g = <<>> \/ Len(g) # WORD_LENGTH
       THEN /\ result' = "WordLengthViolation"
            /\ UNCHANGED <<attempts, letters>>
       ELSE IF upper(g) \notin valid_guesses
       THEN /\ result' = "WordExistenceViolation"
            /\ UNCHANGED <<attempts, letters>>
       ELSE IF hard_mode_violation(upper(g))
       THEN /\ result' = "HardModeRuleViolation"
            /\ UNCHANGED <<attempts, letters>>
       ELSE LET word == score_word(upper(g), solution)
            IN  /\ result' = "None"
                /\ letters' = assign_letters(reset_letters(letters), word, Len(word))
                /\ attempts' = Append(attempts, word)

\* What a caller may pass to guess_word: the catalog words, one of them in
\* lower case, the empty string, words of a wrong length, and a word of the
\* right length that the catalog does not hold.
Inputs ==
    valid_guesses
    \cup { [i \in 1..WORD_LENGTH |-> lower_char(valid_solutions[2][i])] }
    \cup { <<>>, <<"A", "B", "A", "C">>, <<"A", "B", "A", "C", "A", "A">> }
    \cup { <<"C", "C", "C", "C", "C">> }

Next == \E g \in Inputs : guess_word(g) /\ UNCHANGED ai_vars

Spec == Init /\ [][Next]_vars

---------------------------------------------------------------------------
(* One guess against any solution: a session whose valid_solutions.txt     *)
(* holds one word and whose valid_guesses.txt holds one word, any two      *)
(* words over the alphabet, and the first guess_word call of the session.  *)

InitScore ==
    /\ hard_mode = FALSE
    /\ attempts = <<>>
    /\ letters = [l \in ascii_uppercase |-> UNKNOWN]
    /\ solution \in AllWords
    /\ \E w \in AllWords : valid_guesses = Range(<<solution>> \o <<w>>)
    /\ guess = <<>>
    /\ result = "None"
    /\ candidates = {}
    /\ considered = {}
    /\ turns = 0
    /\ pc = "caller"

NextScore ==
    \E g \in valid_guesses : attempts = <<>> /\ guess_word(g) /\ UNCHANGED ai_vars

ScoreSpec == InitScore /\ [][NextScore]_vars

---------------------------------------------------------------------------
(* The automated player: AIGame (ai.py).                                   *)

STARTING_GUESS == <<"A", "D", "I", "E", "U">>

\* How many words of AIExtraGuessWords the solver's valid_guesses.txt holds
\* after STARTING_GUESS.
NumAIExtraGuesses == 14

\* valid_solutions.txt of the automated sessions
ai_valid_solutions_txt ==
    << <<"A", "E", "D", "D", "A">>,
       <<"A", "E", "E", "D", "A">>,
       <<"U", "D", "D", "E", "A">>,
       <<"A", "E", "C", "A", "A">> >>

AIExtraGuessWords ==
    << <<"A", "A", "E", "A", "E">>,
       <<"A", "E", "A", "A", "E">>,
       <<"A", "E", "B", "A", "B">>,
       <<"A", "E", "C", "A", "C">>,
       <<"A", "E", "C", "A", "E">>,
       <<"A", "E", "E", "D", "D">>,
       <<"A", "A", "E", "D", "D">>,
       <<"U", "D", "A", "E", "A">>,
       <<"A", "E", "D", "A", "D">>,
       <<"A", "E", "A", "D", "E">>,
       <<"A", "A", "D", "D", "E">>,
       <<"A", "E", "D", "D", "E">>,
       <<"A", "E", "E", "D", "E">>,
       <<"A", "E", "D", "A", "E">>,
       <<"A", "E", "A", "D", "D">>,
       <<"A", "A", "E", "D", "E">> >>

\* valid_guesses.txt of the automated sessions
ai_valid_guesses_txt ==
    <<STARTING_GUESS>>
        \o SubSeq(AIExtraGuessWords, 1, Min(NumAIExtraGuesses, Len(AIExtraGuessWords)))

\* filter_candidates_for_exact_match filtering the whole catalog instead of
\* the candidates.
filter_candidates_for_exact_match_of_catalog(cands, letter, index) ==
    {word \in valid_guesses : word[index] = letter}

\* filter_candidates_for_exact_match without an effect: the filtered set is
\* not assigned.
filter_candidates_for_exact_match_noop(cands, letter, index) == cands

\* AIGame.filter_candidates_for_exact_match
filter_candidates_for_exact_match(cands, letter, index) ==
    {word \in cands : word[index] = letter}

\* filter_candidates_for_inexact_match without the test that the word
\* contains the letter.
filter_candidates_for_inexact_match_position_only(cands, letter, index) ==
    {word \in cands : word[index] # letter}

\* filter_candidates_for_inexact_match with == for !=.
filter_candidates_for_inexact_match_same_position(cands, letter, index) ==
    {word \in cands : word[index] = letter /\ letter \in Range(word)}

\* AIGame.filter_candidates_for_inexact_match
filter_candidates_for_inexact_match(cands, letter, index) ==
    {word \in cands : word[index] # letter /\ letter \in Range(word)}

\* exclude_candidates without an effect: the difference is not assigned.
exclude_candidates_noop(cands, letter) == cands

\* AIGame.exclude_candidates
exclude_candidates(cands, letter) ==
    cands \ {word \in cands : letter \in Range(word)}

\* get_guess without the duplicate-letter test: every Absent excludes.
no_match_elsewhere_always(prev_attempt, text) == TRUE

\* The any(...) of get_guess, negated: no Letter of the previous Attempt
\* holds text as Present or Correct.
no_match_elsewhere(prev_attempt, text) ==
    ~ \E i \in 1..Len(prev_attempt) :
        /\ prev_attempt[i].text = text
        /\ prev_attempt[i].state \in {IN_WORD, IN_CORRECT_POSITION}

\* One round of the elimination loop of get_guess: the candidates after the
\* Letter at index of the previous Attempt.
eliminate_letter(cands, prev_attempt, index) ==
    LET letter == prev_attempt[index]
        text == letter.text
    IN  IF letter.state = IN_CORRECT_POSITION
        THEN filter_candidates_for_exact_match(cands, text, index)
        ELSE IF letter.state = IN_WORD
        THEN filter_candidates_for_inexact_match(cands, text, index)
        ELSE IF letter.state = NOT_IN_WORD /\ no_match_elsewhere(prev_attempt, text)
        THEN exclude_candidates(cands, text)
        ELSE cands

\* The first n rounds of the elimination loop.
RECURSIVE eliminate(_, _, _)
eliminate(cands, prev_attempt, n) ==
    IF n = 0 THEN cands
    ELSE eliminate_letter(eliminate(cands, prev_attempt, n - 1), prev_attempt, n)

\* get_guess without the remove.
remove_nothing(cands, g) == cands

\* self._candidates.remove(guess); the caller has checked guess \in cands
\* (set.remove raises KeyError otherwise).
remove(cands, g) == cands \ {g}

\* AIGame.__init__ with the word files above
AIInit ==
    /\ hard_mode = TRUE
    /\ attempts = <<>>
    /\ letters = [l \in ascii_uppercase |-> UNKNOWN]
    /\ solution \in Range(get_word_list(ai_valid_solutions_txt))
    /\ valid_guesses =
            Range(get_word_list(ai_valid_solutions_txt) \o get_word_list(ai_valid_guesses_txt))
    /\ guess = <<>>
    /\ result = "None"
    /\ candidates = valid_guesses
    /\ considered = valid_guesses
    /\ turns = 0
    /\ pc = "play"

\* get_guess choosing among the candidates as they were before the
\* elimination loop.
get_guess_choosing_unfiltered ==
    /\ pc = "play"
    /\ ~game_over
    /\ turns' = turns + 1
    /\ UNCHANGED <<hard_mode, attempts, letters, solution, valid_guesses, result>>
    /\ IF attempts # <<>>
       THEN LET prev_attempt == attempts[Len(attempts)]
                filtered == eliminate(candidates, prev_attempt, Len(prev_attempt))
            IN  /\ considered' = filtered
                /\ IF candidates = {}
                   THEN /\ candidates' = filtered
                        /\ guess' = guess
                        /\ pc' = "crashed"
                   ELSE \E word \in candidates :
                            /\ guess' = word
                            /\ candidates' = remove(filtered, word)
                            /\ pc' = "guess_word"
       ELSE /\ considered' = candidates
            /\ guess' = STARTING_GUESS
            /\ IF STARTING_GUESS \in candidates
               THEN /\ candidates' = remove(candidates, STARTING_GUESS)
                    /\ pc' = "guess_word"
               ELSE /\ candidates' = candidates
                    /\ pc' = "crashed"

\* AIGame.get_guess, called by make_guess while the game is not over.
\* random.choice of an empty list raises IndexError and set.remove of a
\* missing word raises KeyError: play does not catch them.
get_guess ==
    /\ pc = "play"
    /\ ~game_over
    /\ turns' = turns + 1
    /\ UNCHANGED <<hard_mode, attempts, letters, solution, valid_guesses, result>>
    /\ IF attempts # <<>>
       THEN LET prev_attempt == attempts[Len(attempts)]
                filtered == eliminate(candidates, prev_attempt, Len(prev_attempt))
            IN  /\ considered' = filtered
                /\ IF filtered = {}
                   THEN /\ candidates' = filtered
                        /\ guess' = guess
                        /\ pc' = "crashed"
                   ELSE \E word \in filtered :
                            /\ guess' = word
                            /\ candidates' = remove(filtered, word)
                            /\ pc' = "guess_word"
       ELSE /\ considered' = candidates
            /\ guess' = STARTING_GUESS
            /\ IF STARTING_GUESS \in candidates
               THEN /\ candidates' = remove(candidates, STARTING_GUESS)
                    /\ pc' = "guess_word"
               ELSE /\ candidates' = candidates
                    /\ pc' = "crashed"

\* Game.make_guess after get_guess returned: guess_word(guess); when it
\* raises, the loop of make_guess calls get_guess again, otherwise make_guess
\* returns to the loop of play.
make_guess ==
    /\ pc = "guess_word"
    /\ guess_word(guess)
    /\ pc' = "play"
    /\ UNCHANGED <<candidates, considered, turns>>

\* Game.play when its loop ends: the game is over.
play_end ==
    /\ pc = "play"
    /\ game_over
    /\ pc' = "done"
    /\ UNCHANGED <<hard_mode, attempts, letters, solution, valid_guesses, guess, result,
                   candidates, considered, turns>>

AINext == get_guess \/ make_guess \/ play_end

AISpec == AIInit /\ [][AINext]_vars

\* play runs on: its loop takes its next step whenever it has one.
AIFairSpec == AIInit /\ [][AINext]_vars /\ WF_vars(AINext)

---------------------------------------------------------------------------
(* The feedback of one guess (claims C1 to C3, checked under ScoreSpec).   *)

\* The guessed word of an Attempt: the text of its Letters.
text_of(word) == [i \in 1..Len(word) |-> word[i].text]

\* The classifications of an Attempt.
states_of(word) == [i \in 1..Len(word) |-> word[i].state]

count(word, letter) == Cardinality({i \in 1..Len(word) : word[i] = letter})

\* The two-pass reference algorithm.  Pass 1 marks the matches in place and
\* leaves, for each letter, the occurrences of the solution no match used.
RefRemaining(g, sol) ==
    [l \in Range(g) \cup Range(sol) |->
        count(sol, l) - Cardinality({i \in 1..Len(g) : g[i] = l /\ g[i] = sol[i]})]

\* Pass 2, from position i on, left to right: remaining is what is left of
\* each letter, acc the classifications of the positions before i.
RECURSIVE RefPass2(_, _, _, _, _)
RefPass2(g, sol, i, remaining, acc) ==
    IF i > Len(g) THEN acc
    ELSE IF g[i] = sol[i]
    THEN RefPass2(g, sol, i + 1, remaining, Append(acc, IN_CORRECT_POSITION))
    ELSE IF remaining[g[i]] > 0
    THEN RefPass2(g, sol, i + 1, [remaining EXCEPT ![g[i]] = @ - 1], Append(acc, IN_WORD))
    ELSE RefPass2(g, sol, i + 1, remaining, Append(acc, NOT_IN_WORD))

RefScore(g, sol) == RefPass2(g, sol, 1, RefRemaining(g, sol), <<>>)

\* C1: the Attempt that guess_word records for an accepted guess holds the
\* guess after upper(), letter by letter, and classifies each position as the
\* two-pass reference algorithm does: Correct where guess and solution agree,
\* then left to right Present while an occurrence of the letter is left in
\* the solution, unused by a Correct or an earlier Present, and Absent
\* otherwise.
C1_ScoreIsTwoPass ==
    \A k \in 1..Len(attempts) :
        /\ Len(attempts[k]) = WORD_LENGTH
        /\ text_of(attempts[k]) = upper(guess)
        /\ states_of(attempts[k]) = RefScore(upper(guess), solution)

\* A scored guess that repeats a letter, with one occurrence Correct, a
\* later one Present and a still later one Absent.
C1_Witness ==
    /\ Len(attempts) = 1
    /\ \E i, j, k \in 1..WORD_LENGTH :
        /\ i < j /\ j < k
        /\ attempts[1][i].text = attempts[1][j].text
        /\ attempts[1][j].text = attempts[1][k].text
        /\ attempts[1][i].state = IN_CORRECT_POSITION
        /\ attempts[1][j].state = IN_WORD
        /\ attempts[1][k].state = NOT_IN_WORD

\* The positions of an Attempt that hold letter l and are Correct or Present.
hits(word, l) ==
    {i \in 1..Len(word) :
        word[i].text = l /\ word[i].state \in {IN_WORD, IN_CORRECT_POSITION}}

\* C2: in every recorded Attempt, for every letter L, the number of
\* positions holding L that are Correct or Present is exactly the minimum of
\* the occurrences of L in the guess and in the solution.
C2_LetterMultiplicity ==
    \A k \in 1..Len(attempts) : \A l \in ascii_uppercase :
        Cardinality(hits(attempts[k], l))
            = Min(count(text_of(attempts[k]), l), count(solution, l))

\* A scored guess with one letter it holds more often than the solution
\* (which holds it too) and one letter it holds less often than the solution.
C2_Witness ==
    /\ Len(attempts) = 1
    /\ \E l, m \in ascii_uppercase :
        /\ count(text_of(attempts[1]), l) > count(solution, l)
        /\ count(solution, l) > 0
        /\ count(text_of(attempts[1]), m) < count(solution, m)
        /\ count(text_of(attempts[1]), m) > 0

\* C3: in every recorded Attempt no position classified Absent lies to the
\* left of a position classified Present that holds the same letter.
C3_LeftmostPresent ==
    \A k \in 1..Len(attempts) : \A i, j \in 1..Len(attempts[k]) :
        (/\ i < j
         /\ attempts[k][i].text = attempts[k][j].text
         /\ attempts[k][i].state = NOT_IN_WORD)
            => attempts[k][j].state # IN_WORD

\* A scored guess with a letter Present at one position and Absent at a
\* position to the right of it.
C3_Witness ==
    /\ Len(attempts) = 1
    /\ \E i, j \in 1..WORD_LENGTH :
        /\ i < j
        /\ attempts[1][i].text = attempts[1][j].text
        /\ attempts[1][i].state = IN_WORD
        /\ attempts[1][j].state = NOT_IN_WORD

---------------------------------------------------------------------------
(* The session (claims C4 to C10, checked under Spec).                     *)

\* Every position of an Attempt is Correct.
AllGreen(word) == \A i \in 1..Len(word) : word[i].state = IN_CORRECT_POSITION

\* The step appended one Attempt and kept the ones before it.
Appended == Len(attempts') = Len(attempts) + 1 /\ SubSeq(attempts', 1, Len(attempts)) = attempts

Violations == {"WordLengthViolation", "WordExistenceViolation", "HardModeRuleViolation"}

\* C4: a session never holds more than MAX_ATTEMPTS Attempts, and no Attempt
\* but the last one is all-Correct.
C4_AttemptsBounded ==
    /\ Len(attempts) <= MAX_ATTEMPTS
    /\ \A k \in 1..(Len(attempts) - 1) : ~AllGreen(attempts[k])

\* A game won before the last attempt, on which guess_word was then called
\* with another word of the catalog.
C4_Witness ==
    /\ 0 < Len(attempts) /\ Len(attempts) < MAX_ATTEMPTS
    /\ AllGreen(attempts[Len(attempts)])
    /\ guess \in valid_guesses
    /\ guess # solution

\* C5: a session starts in progress; while it is in progress a call makes
\* it Won exactly when it appends an all-Correct Attempt and Lost (over and
\* not won) exactly when it appends a sixth Attempt that is not all-Correct;
\* once the game is over it stays over, the won flag and the attempts do not
\* change.
C5_StateMachine ==
    /\ ~game_over
    /\ [][ /\ ~game_over =>
                /\ won' <=> (Appended /\ AllGreen(attempts'[Len(attempts')]))
                /\ (game_over' /\ ~won') <=>
                        (/\ Appended
                         /\ Len(attempts') = MAX_ATTEMPTS
                         /\ ~AllGreen(attempts'[Len(attempts')]))
           /\ game_over =>
                /\ game_over'
                /\ won' <=> won
                /\ attempts' = attempts
         ]_vars

\* A game won by its sixth Attempt.
C5_Witness ==
    /\ Len(attempts) = MAX_ATTEMPTS
    /\ won
    /\ \A k \in 1..(MAX_ATTEMPTS - 1) : ~AllGreen(attempts[k])

\* C6: guess_word checks terminal, length, existence, hard mode in this
\* order and the first check that fails decides: a call on a finished game
\* returns without an error and without a change whatever the input;
\* otherwise a guess that is not 5 long raises WordLengthViolation; otherwise
\* a guess outside the catalog raises WordExistenceViolation, whether or not
\* it keeps the Correct letters; otherwise the call raises
\* HardModeRuleViolation or appends the scored guess.
C6_CheckOrder ==
    [][ IF game_over
        THEN result' = "None" /\ attempts' = attempts
        ELSE IF Len(guess') # WORD_LENGTH
        THEN result' = "WordLengthViolation"
        ELSE IF upper(guess') \notin valid_guesses
        THEN result' = "WordExistenceViolation"
        ELSE \/ result' = "HardModeRuleViolation"
             \/ /\ result' = "None"
                /\ Appended
                /\ text_of(attempts'[Len(attempts')]) = upper(guess')
      ]_vars

\* A right-length guess outside the catalog that also breaks the hard-mode
\* rule, answered with WordExistenceViolation.
C6_Witness ==
    /\ result = "WordExistenceViolation"
    /\ hard_mode
    /\ attempts # <<>>
    /\ Len(guess) = WORD_LENGTH
    /\ \E i \in 1..WORD_LENGTH :
        /\ attempts[Len(attempts)][i].state = IN_CORRECT_POSITION
        /\ upper(guess)[i] # attempts[Len(attempts)][i].text

\* C7: a call that raises, or that is made on a finished game, changes
\* nothing of the session: attempts, keyboard, solution, hard-mode flag,
\* catalog and status are as before.
C7_RejectedUnchanged ==
    [][ (result' \in Violations \/ game_over) =>
            /\ attempts' = attempts
            /\ letters' = letters
            /\ solution' = solution
            /\ hard_mode' = hard_mode
            /\ valid_guesses' = valid_guesses
            /\ won' <=> won
            /\ game_over' <=> game_over
      ]_vars

\* A hard-mode rejection in a session whose keyboard shows a letter as
\* Present or Correct.
C7_Witness ==
    /\ result = "HardModeRuleViolation"
    /\ attempts # <<>>
    /\ \E l \in ascii_uppercase : letters[l] \in {IN_WORD, IN_CORRECT_POSITION}

\* C8: in hard mode, a position that any earlier Attempt has Correct holds
\* the same letter in every later Attempt.
C8_HardModeMonotonic ==
    hard_mode =>
        \A k, m \in 1..Len(attempts) : \A i \in 1..WORD_LENGTH :
            (k < m /\ attempts[k][i].state = IN_CORRECT_POSITION)
                => attempts[m][i].text = attempts[k][i].text

\* A hard-mode session with three different guesses, the first of which has
\* a Correct position.
C8_Witness ==
    /\ hard_mode
    /\ Len(attempts) >= 3
    /\ \E i \in 1..WORD_LENGTH : attempts[1][i].state = IN_CORRECT_POSITION
    /\ text_of(attempts[1]) # text_of(attempts[2])
    /\ text_of(attempts[2]) # text_of(attempts[3])
    /\ text_of(attempts[1]) # text_of(attempts[3])

\* Some position that the last Attempt has Correct holds another letter in g.
BreaksCorrect(g) ==
    \E i \in 1..WORD_LENGTH :
        /\ attempts[Len(attempts)][i].state = IN_CORRECT_POSITION
        /\ g[i] # attempts[Len(attempts)][i].text

\* C9: a call raises HardModeRuleViolation exactly when the game is not
\* over, the guess is 5 long and in the catalog, hard mode is on, an Attempt
\* exists, and a position Correct in the last Attempt holds another letter
\* in the guess; a Present letter that the guess lacks changes nothing.
C9_HardModeRule ==
    [][ result' = "HardModeRuleViolation" <=>
            (/\ ~game_over
             /\ Len(guess') = WORD_LENGTH
             /\ upper(guess') \in valid_guesses
             /\ hard_mode
             /\ attempts # <<>>
             /\ BreaksCorrect(upper(guess')))
      ]_vars

\* A hard-mode session whose last accepted guess lacks a letter that the
\* Attempt before it has Present.
C9_Witness ==
    /\ hard_mode
    /\ Len(attempts) >= 2
    /\ result = "None"
    /\ text_of(attempts[Len(attempts)]) = upper(guess)
    /\ \E i \in 1..WORD_LENGTH :
        /\ attempts[Len(attempts) - 1][i].state = IN_WORD
        /\ attempts[Len(attempts) - 1][i].text \notin Range(upper(guess))

\* The classifications letter l received in the recorded Attempts.
received(l) ==
    {attempts[p[1]][p[2]].state :
        p \in {q \in (1..Len(attempts)) \X (1..WORD_LENGTH) :
                    attempts[q[1]][q[2]].text = l}}

\* The best of a set of classifications: the LetterState values grow with
\* the order Unknown < Absent < Present < Correct.
best(S) == IF S = {} THEN UNKNOWN ELSE CHOOSE x \in S : \A y \in S : y <= x

\* C10: the keyboard maps every letter to the best classification it
\* received at any position of any recorded Attempt, Unknown if it was never
\* guessed.
C10_KeyboardIsBest ==
    \A l \in ascii_uppercase : letters[l] = best(received(l))

---------------------------------------------------------------------------
(* Winning and the keyboard (claims C17 and C20).                          *)

\* C17: for every accepted guess, the appended Attempt is all-Correct (what
\* Game.won tests) exactly when the guessed word equals the solution (what
\* print_game_emoji tests); guessing the solution wins the game.
C17_WinNotionsAgree ==
    attempts # <<>> =>
        /\ won <=> emoji_solved
        /\ upper(guess) = solution => won

\* A game won by guessing the solution.
C17_Witness ==
    /\ Len(attempts) = 1
    /\ upper(guess) = solution
    /\ won
    /\ emoji_solved

\* C20: a letter that the keyboard shows as Absent (NOT_IN_WORD) does not
\* occur in the solution.
C20_AbsentNotInSolution ==
    \A l \in ascii_uppercase : letters[l] = NOT_IN_WORD => l \notin Range(solution)

---------------------------------------------------------------------------
(* The solver (claims C11 to C16, C18 and C19, checked under AISpec and    *)
(* AIFairSpec).                                                            *)

\* The step is a get_guess call.
GetGuessStep == turns' = turns + 1

\* C11: the Candidate Set never grows: every step leaves a subset of the
\* candidates, and in a get_guess call the set after the elimination loop is
\* a subset of the set before it and the set after the choice a subset of
\* that.
C11_CandidatesShrink ==
    [][ /\ candidates' \subseteq candidates
        /\ GetGuessStep => (considered' \subseteq candidates /\ candidates' \subseteq considered')
      ]_vars

\* A get_guess call whose elimination loop removed candidates and left
\* more than one.
C11_Witness ==
    /\ pc = "guess_word"
    /\ attempts # <<>>
    /\ Cardinality(considered) > 1
    /\ Cardinality(considered) < Cardinality(valid_guesses) - (turns - 1)

\* C12: the solution is in the Candidate Set after every elimination loop,
\* and it is in the set the solver keeps unless it is the guess that
\* get_guess returned last.
C12_SolutionKept ==
    /\ solution \in considered
    /\ solution \in candidates \/ guess = solution

\* An elimination loop over an Attempt that is not the solution and repeats
\* a letter, Absent at one position and Present or Correct at another.
C12_Witness ==
    /\ pc = "guess_word"
    /\ attempts # <<>>
    /\ guess # solution
    /\ \E i, j \in 1..WORD_LENGTH :
        /\ attempts[Len(attempts)][i].text = attempts[Len(attempts)][j].text
        /\ attempts[Len(attempts)][i].state = NOT_IN_WORD
        /\ attempts[Len(attempts)][j].state \in {IN_WORD, IN_CORRECT_POSITION}

\* C13: when get_guess counts exactly one candidate, it returns that
\* candidate, guess_word accepts it and the game is won by that Attempt.
C13_SingleCandidateWins ==
    /\ [](pc = "guess_word" /\ Cardinality(considered) = 1 => considered = {guess})
    /\ [][ (pc = "guess_word" /\ Cardinality(considered) = 1) =>
                /\ result' = "None"
                /\ Appended
                /\ text_of(attempts'[Len(attempts')]) = guess
                /\ AllGreen(attempts'[Len(attempts')])
                /\ won'
         ]_vars

\* A game won by the guess that get_guess returned when one candidate was
\* left.
C13_Witness ==
    /\ pc = "play"
    /\ Len(attempts) >= 2
    /\ Cardinality(considered) = 1
    /\ guess \in considered
    /\ won

\* C14: the word get_guess returns is out of the Candidate Set when it
\* returns, no recorded guess is in it, and the recorded guesses are
\* pairwise distinct.
C14_NoRepeatedGuess ==
    /\ pc = "guess_word" => guess \notin candidates
    /\ \A k \in 1..Len(attempts) : text_of(attempts[k]) \notin candidates
    /\ \A k, m \in 1..Len(attempts) :
            k # m => text_of(attempts[k]) # text_of(attempts[m])

\* A game that goes on after a guess whose letters are all Correct or
\* Absent, each Absent letter being Correct elsewhere: the filter of its own
\* feedback keeps that guess.
C14_Witness ==
    /\ pc = "guess_word"
    /\ Len(attempts) >= 2
    /\ LET last == attempts[Len(attempts)]
       IN  /\ \A i \in 1..WORD_LENGTH : last[i].state \in {NOT_IN_WORD, IN_CORRECT_POSITION}
           /\ \A i \in 1..WORD_LENGTH : last[i].state = NOT_IN_WORD =>
                \E j \in 1..WORD_LENGTH :
                    last[j].text = last[i].text /\ last[j].state = IN_CORRECT_POSITION

\* The filter of one Attempt written as one comprehension: a word stays
\* when it has every Correct letter at its position, has every Present
\* letter but not at its position, and has no letter that is Absent and
\* nowhere Present or Correct in the Attempt.
RefFilter(cands, attempt) ==
    {w \in cands :
        \A i \in 1..Len(attempt) :
            /\ attempt[i].state = IN_CORRECT_POSITION => w[i] = attempt[i].text
            /\ attempt[i].state = IN_WORD =>
                    (attempt[i].text \in Range(w) /\ w[i] # attempt[i].text)
            /\ ( /\ attempt[i].state = NOT_IN_WORD
                 /\ \A j \in 1..Len(attempt) :
                        attempt[j].text = attempt[i].text => attempt[j].state = NOT_IN_WORD )
                    => attempt[i].text \notin Range(w)}

\* C15: the elimination loop of a get_guess call leaves exactly the
\* candidates that pass the reference filter of the latest Attempt.
C15_EliminationIsFilter ==
    [][ (GetGuessStep /\ attempts # <<>>) =>
            considered' = RefFilter(candidates, attempts[Len(attempts)])
      ]_vars

\* The second elimination loop of a game, over an Attempt with a Correct
\* letter, a Present letter and an Absent letter that is Present or Correct
\* elsewhere, which leaves more than one candidate; the first Attempt had
\* an Absent letter that excludes.
C15_Witness ==
    /\ pc = "guess_word"
    /\ Len(attempts) = 2
    /\ Cardinality(considered) > 1
    /\ \E i \in 1..WORD_LENGTH :
        /\ attempts[1][i].state = NOT_IN_WORD
        /\ no_match_elsewhere(attempts[1], attempts[1][i].text)
    /\ LET last == attempts[Len(attempts)]
       IN  /\ \E i \in 1..WORD_LENGTH : last[i].state = IN_CORRECT_POSITION
           /\ \E i \in 1..WORD_LENGTH : last[i].state = IN_WORD
           /\ \E i \in 1..WORD_LENGTH :
                /\ last[i].state = NOT_IN_WORD
                /\ ~no_match_elsewhere(last, last[i].text)

\* C16 as stated: after the elimination loop, scoring each recorded guess
\* against any remaining candidate gives exactly the recorded
\* classifications.
C16_ExactlyConsistent ==
    (pc = "guess_word" /\ attempts # <<>>) =>
        \A w \in considered : \A k \in 1..Len(attempts) :
            states_of(score_word(text_of(attempts[k]), w)) = states_of(attempts[k])

\* C16, amended: after the elimination loop, scoring each recorded guess
\* against any remaining candidate gives Correct where Correct is
\* recorded, gives no Correct where Present is recorded (and the candidate
\* has that letter), and gives Absent where Absent is recorded for a
\* letter that is nowhere Present or Correct in that Attempt.
C16_FilterConsistent ==
    (pc = "guess_word" /\ attempts # <<>>) =>
        \A w \in considered : \A k \in 1..Len(attempts) :
            LET scored == states_of(score_word(text_of(attempts[k]), w))
            IN  \A i \in 1..WORD_LENGTH :
                    /\ attempts[k][i].state = IN_CORRECT_POSITION =>
                            scored[i] = IN_CORRECT_POSITION
                    /\ attempts[k][i].state = IN_WORD =>
                            /\ scored[i] # IN_CORRECT_POSITION
                            /\ attempts[k][i].text \in Range(w)
                    /\ ( /\ attempts[k][i].state = NOT_IN_WORD
                         /\ \A j \in 1..WORD_LENGTH :
                                attempts[k][j].text = attempts[k][i].text =>
                                    attempts[k][j].state = NOT_IN_WORD )
                            => scored[i] = NOT_IN_WORD

\* An elimination loop that leaves a candidate against which a recorded
\* guess does not score as recorded.
C16_Witness ==
    /\ pc = "guess_word"
    /\ Len(attempts) >= 2
    /\ \E w \in considered : \E k \in 1..Len(attempts) :
            states_of(score_word(text_of(attempts[k]), w)) # states_of(attempts[k])

\* C18: every word get_guess returns is accepted by guess_word at the first
\* try: no call is rejected, and the calls of get_guess and the recorded
\* Attempts are in one-to-one correspondence.
C18_EveryGuessAccepted ==
    /\ pc # "crashed"
    /\ result = "None"
    /\ pc \in {"play", "done"} => turns = Len(attempts)
    /\ pc = "guess_word" =>
        /\ turns = Len(attempts) + 1
        /\ Len(guess) = WORD_LENGTH
        /\ upper(guess) \in valid_guesses
        /\ attempts # <<>> => ~BreaksCorrect(guess)

\* The third guess of a hard-mode game has been accepted, the Attempt
\* before it having Correct letters.
C18_Witness ==
    /\ pc = "play"
    /\ Len(attempts) = 3
    /\ turns = 3
    /\ result = "None"
    /\ \E i \in 1..WORD_LENGTH : attempts[2][i].state = IN_CORRECT_POSITION

\* C19: an automated game ends after at most MAX_ATTEMPTS calls of
\* get_guess, and the Candidate Set is not empty when get_guess chooses.
C19_Terminates ==
    /\ <>(pc = "done")
    /\ [](pc = "done" => game_over)
    /\ [](turns <= MAX_ATTEMPTS)
    /\ [](pc # "crashed")
    /\ [](pc = "guess_word" => considered # {})

\* A game that ended Lost after MAX_ATTEMPTS calls of get_guess.
C19_Witness ==
    /\ pc = "done"
    /\ turns = MAX_ATTEMPTS
    /\ game_over
    /\ ~AllGreen(attempts[Len(attempts)])

===========================================================================
